---- MODULE Spec2Model ----
(***************************************************************************)
(* A model of the read-only ZIP reader of vfs-rs (src/src/zip).            *)
(*                                                                         *)
(* The module holds several state machines, one per part of the reader,    *)
(* each with its own specification:                                        *)
(*   SpecDeflate  one DeflateReader over a compressed range                *)
(*   SpecStored   one PlaintextReader over a byte range                    *)
(*   SpecShared   a PlaintextReader, a DeflateReader and by_name sharing   *)
(*                one file handle behind its RwLock                        *)
(*   SpecFind     CentralDirectoryEnd::find_and_parse over a file          *)
(*   SpecOpen     ZipArchive::new over an archive file, then by_name       *)
(*   SpecExtra    parse_extra_field over the extra field of one entry      *)
(* A specification leaves the variables of the other parts at Idle.        *)
(***************************************************************************)
EXTENDS Integers, Sequences, FiniteSets, TLC

VARIABLES dr, pr, sh, fs, ar

vars == <<dr, pr, sh, fs, ar>>

Idle == [tag |-> "idle"]

Min(a, b) == IF a <= b THEN a ELSE b
Max(a, b) == IF a >= b THEN a ELSE b

(***************************************************************************)
(* Bounds of the model.                                                    *)
(***************************************************************************)
\* largest caller buffer handed to read
MaxBuf == 3
\* most output bytes one compressed byte decodes to
MaxExpand == 2
\* compressed lengths tried around each multiple of the input buffer size
MaxSlack == 1
\* refills of the input buffer a compressed range may need, minus one
MaxChunks == 2
\* longest byte range of a Stored entry
MaxRange == 4
\* longest range of the Stored entry and largest buffer where readers share a file
ShMaxRange == 2
ShMaxBuf == 2
\* how far the longest file exceeds the longest end record (22 + 65535 bytes)
FindOver == 4
\* bits of the model's 64-bit words (u64 is 0..2^W64-1, i64 is -2^(W64-1)..2^(W64-1)-1)
W64 == 12
\* bits of the model's 32-bit words (u32 is 0..2^W32-1), fewer than W64
W32 == 10
\* most central headers in the directory of an archive
MaxHeaders == 2
\* most records in an extra field that is parsed on its own
MaxRecords == 3
\* bytes in front of the ZIP data of an archive that has a prefix
PrefixLen == 2
\* bytes from one local header of an archive to the next
LocalGap == 40

(***************************************************************************)
(* Machine words and the arguments of std::io::Seek.                       *)
(***************************************************************************)
U64_MOD == 2 ^ W64
I64_MAX == 2 ^ (W64 - 1) - 1
I64_MIN == 0 - 2 ^ (W64 - 1)

\* `x as u64` and `x as i64`
AsU64(x) == x % U64_MOD
AsI64(x) == LET m == x % U64_MOD IN IF m > I64_MAX THEN m - U64_MOD ELSE m

InI64(x) == I64_MIN <= x /\ x <= I64_MAX

\* the arguments of seek: SeekFrom::Start takes a u64, End and Current an i64
SeekFroms ==
    { [kind |-> "Start", off |-> o] : o \in 0..(MaxRange + 1) \cup {U64_MOD - 1} }
        \cup { [kind |-> k, off |-> o] :
                 k \in {"End", "Current"},
                 o \in (-(MaxRange + 1))..(MaxRange + 1) \cup {I64_MIN, I64_MAX} }

(***************************************************************************)
(* deflate.rs                                                              *)
(***************************************************************************)
DEFLATE_BUF_SIZE == 32

(* A compressed range, described by what the DEFLATE engine decodes from   *)
(* it: the range holds n bytes; consuming byte k (1-based) makes Expand    *)
(* more output bytes available; byte n carries the end-of-stream marker    *)
(* unless the stream is cut short; consuming byte corruptAt is a fatal     *)
(* decode fault (0: no such byte).  lookahead tells whether the engine     *)
(* takes input it has no output room for (it buffers the decoded bytes).   *)
CompLens ==
    UNION { { c * DEFLATE_BUF_SIZE + d : d \in 0..MaxSlack } : c \in 0..MaxChunks }
        \cup { DEFLATE_BUF_SIZE - 1 }

AllStreams ==
    { [n |-> n, each |-> e, last |-> l, truncated |-> t, corruptAt |-> c,
       lookahead |-> la] :
        n \in CompLens, e \in 0..MaxExpand, l \in 0..MaxExpand,
        t \in BOOLEAN, c \in {0, 1, DEFLATE_BUF_SIZE + 1}, la \in BOOLEAN }

\* an empty range holds no end marker
Streams == { s \in AllStreams : s.n = 0 => s.truncated }

Expand(s, k) == IF k = s.n THEN s.last ELSE s.each

\* what the whole stream decodes to: the entry's uncompressed_size
UncompressedSize(s) == IF s.n = 0 THEN 0 ELSE (s.n - 1) * s.each + s.last

ValidStream(s) == s.n >= 1 /\ ~s.truncated /\ (s.corruptAt = 0 \/ s.corruptAt > s.n)

CutShort(s) == s.n >= 1 /\ s.truncated /\ (s.corruptAt = 0 \/ s.corruptAt > s.n)

Faulty(s) == s.corruptAt >= 1 /\ s.corruptAt <= s.n

\* Decompress::new(false)
NewDecompress ==
    [total_in |-> 0, total_out |-> 0, pending |-> 0, ended |-> FALSE, failed |-> FALSE]

(* The engine's inner loop: write what fits, then take the next input byte *)
(* and decode it, until the output is full, the input is used up, the      *)
(* stream has ended or a byte cannot be decoded.                           *)
RECURSIVE Inflate(_, _, _, _)
Inflate(d, avail, room, s) ==
    LET emit == Min(d.pending, room)
        d1 == [d EXCEPT !.pending = @ - emit, !.total_out = @ + emit]
        room1 == room - emit
        k == d1.total_in + 1
    IN  IF d1.failed \/ d1.ended \/ avail = 0 \/ (room1 = 0 /\ ~s.lookahead)
        THEN d1
        ELSE IF k = s.corruptAt
        THEN [d1 EXCEPT !.failed = TRUE]
        ELSE Inflate([d1 EXCEPT !.total_in = k,
                                !.pending = @ + Expand(s, k),
                                !.ended = (k = s.n /\ ~s.truncated)],
                     avail - 1, room1, s)

\* Decompress::decompress(input, output, flush): the new engine state and the status
DecompressStatus(d0, d1) ==
    IF d1.failed THEN "Err"
    ELSE IF d1.ended /\ d1.pending = 0 THEN "StreamEnd"
    ELSE IF d1.total_in > d0.total_in \/ d1.total_out > d0.total_out THEN "Ok"
    ELSE "BufError"

\* DeflateReader::new
NewDeflateReader(s, start) ==
    [s |-> s, start |-> start, end |-> start + s.n, position |-> 0,
     decompress |-> NewDecompress, deflate_size |-> 0, deflate_position |-> 0,
     ret |-> "none", n |-> 0, buf |-> 0, delivered |-> 0, nonempty |-> TRUE,
     from |-> start]
\* (ret, n, buf record the last call: its result, the count it returned and
\* the length of its buffer; delivered is the sum of the counts returned,
\* nonempty tells that no read so far was handed an empty buffer and from
\* is the file offset that deflate_buf[0] was read from)

\* the refill of deflate_buf: seek to start + position, read at most limit bytes
\* (the range lies inside the file, so the read is not cut by the end of file)
DeflateLimit_Whole(r) == DEFLATE_BUF_SIZE
DeflateLimit(r) == Min(r.end - r.start - r.position, DEFLATE_BUF_SIZE)

Refill(r) == [r EXCEPT !.deflate_size = DeflateLimit(r), !.deflate_position = 0,
                       !.from = r.position + r.start]

\* the loop of DeflateReader::read
RECURSIVE DeflateReadLoop(_, _)
DeflateReadLoop(r, blen) ==
    LET r1 == IF r.deflate_position = r.deflate_size THEN Refill(r) ELSE r
        avail == r1.deflate_size - r1.deflate_position
        eof == avail = 0
        d1 == Inflate(r1.decompress, avail, blen, r1.s)
        ret == DecompressStatus(r1.decompress, d1)
        read == d1.total_out - r1.decompress.total_out
        consumed == d1.total_in - r1.decompress.total_in
        r2 == [r1 EXCEPT !.decompress = d1,
                         !.deflate_position = @ + consumed,
                         !.position = @ + consumed]
    IN  IF ret \in {"Ok", "BufError"} /\ read = 0 /\ ~eof /\ blen # 0
        THEN DeflateReadLoop(r2, blen)
        ELSE IF ret \in {"Ok", "BufError", "StreamEnd"}
        THEN [r2 EXCEPT !.ret = "Ok", !.n = read, !.delivered = @ + read]
        ELSE [r2 EXCEPT !.ret = "corrupt deflate stream", !.n = 0]

\* DeflateReader::read(buf), buf of blen bytes
DeflateReaderRead(r, blen) ==
    IF r.position >= r.end - r.start
    THEN [r EXCEPT !.ret = "Ok", !.n = 0, !.buf = blen,
                   !.nonempty = @ /\ blen >= 1]
    ELSE DeflateReadLoop([r EXCEPT !.buf = blen, !.nonempty = @ /\ blen >= 1], blen)

\* DeflateReader::seek(pos): todo!() panics whatever pos is
DeflateReaderSeek(r, pos) == [r EXCEPT !.ret = "panic", !.n = 0]

DeflateInit ==
    /\ dr \in { NewDeflateReader(s, start) : s \in Streams, start \in {0, 5} }
    /\ pr = Idle /\ sh = Idle /\ fs = Idle /\ ar = Idle

DeflateRead ==
    /\ dr.ret # "panic"
    /\ \E blen \in 0..MaxBuf : dr' = DeflateReaderRead(dr, blen)
    /\ UNCHANGED <<pr, sh, fs, ar>>

DeflateSeek ==
    /\ dr.ret # "panic"
    /\ \E pos \in SeekFroms : dr' = DeflateReaderSeek(dr, pos)
    /\ UNCHANGED <<pr, sh, fs, ar>>

DeflateNext == DeflateRead \/ DeflateSeek

SpecDeflate == DeflateInit /\ [][DeflateNext]_vars

(***************************************************************************)
(* plaintext.rs                                                            *)
(***************************************************************************)
\* the file's byte at offset i: every offset holds a byte of its own
FileByte(i) == 100 + i

\* what File::read delivers at cursor `from` into a buffer of `limit` bytes
FileRead(flen, from, limit) ==
    [ i \in 1..Min(limit, Max(flen - from, 0)) |-> FileByte(from + i - 1) ]

\* PlaintextReader::new
NewPlaintextReader(start, end, flen, checks) ==
    [start |-> start, end |-> end, position |-> 0, flen |-> flen,
     overflow_checks |-> checks,
     op |-> "new", ret |-> "none", n |-> 0, buf |-> 0, data |-> <<>>,
     got |-> <<>>, seeked |-> FALSE, pos |-> [kind |-> "Start", off |-> 0]]
\* (op, ret, n, buf, data record the last call and its result, pos the
\* argument of the last seek; got is the concatenation of what the reads
\* delivered, kept until the first seek)

\* (a mutant of PlaintextReaderRead: the seek forgets the range's start)
PlaintextReaderRead_NoStart(r, blen) ==
    IF r.position >= r.end - r.start
    THEN [r EXCEPT !.op = "read", !.ret = "Ok", !.n = 0, !.buf = blen, !.data = <<>>]
    ELSE LET bytes == FileRead(r.flen, r.position,
                               Min(r.end - r.start - r.position, blen))
         IN  [r EXCEPT !.op = "read", !.ret = "Ok", !.n = Len(bytes), !.buf = blen,
                       !.data = bytes,
                       !.got = IF r.seeked THEN <<>> ELSE @ \o bytes,
                       !.position = @ + Len(bytes)]

\* PlaintextReader::read(buf), buf of blen bytes
PlaintextReaderRead(r, blen) ==
    IF r.position >= r.end - r.start
    THEN [r EXCEPT !.op = "read", !.ret = "Ok", !.n = 0, !.buf = blen, !.data = <<>>]
    ELSE LET from == r.position + r.start
             len == r.end - r.start - r.position
             limit == Min(len, blen)
             bytes == FileRead(r.flen, from, limit)
             size == Len(bytes)
         IN  [r EXCEPT !.op = "read", !.ret = "Ok", !.n = size, !.buf = blen,
                       !.data = bytes,
                       !.got = IF r.seeked THEN <<>> ELSE @ \o bytes,
                       !.position = @ + size]

\* the target PlaintextReader::seek computes: i64 arithmetic cast back to u64
SeekTarget(r, pos) ==
    CASE pos.kind = "Start" -> pos.off
      [] pos.kind = "End" -> AsU64(AsI64(r.end) - AsI64(r.start) - pos.off)
      [] pos.kind = "Current" -> AsU64(AsI64(r.position) + pos.off)

\* whether one of its i64 operations leaves the i64 range
SeekOverflows(r, pos) ==
    CASE pos.kind = "Start" -> FALSE
      [] pos.kind = "End" ->
            \/ ~InI64(AsI64(r.end) - AsI64(r.start))
            \/ ~InI64(AsI64(r.end) - AsI64(r.start) - pos.off)
      [] pos.kind = "Current" -> ~InI64(AsI64(r.position) + pos.off)

\* PlaintextReader::seek(pos); an i64 overflow panics in a build with overflow
\* checks and wraps in one without
PlaintextReaderSeek(r, pos) ==
    LET position == SeekTarget(r, pos)
        r1 == [r EXCEPT !.op = "seek", !.seeked = TRUE, !.n = 0, !.data = <<>>,
                        !.got = <<>>, !.pos = pos]
    IN  IF SeekOverflows(r, pos) /\ r.overflow_checks
        THEN [r1 EXCEPT !.ret = "panic"]
        ELSE IF position > r.end - r.start
        THEN [r1 EXCEPT !.ret = "Invalid seek input"]
        ELSE [r1 EXCEPT !.ret = "Ok", !.position = position, !.n = position]

StoredInit ==
    /\ pr \in { NewPlaintextReader(start, start + len, start + len + tail, checks) :
                    start \in {0, 2}, len \in 0..MaxRange, tail \in {0, 3},
                    checks \in BOOLEAN }
    /\ dr = Idle /\ sh = Idle /\ fs = Idle /\ ar = Idle

StoredRead ==
    /\ pr.ret # "panic"
    /\ \E blen \in 0..MaxBuf : pr' = PlaintextReaderRead(pr, blen)
    /\ UNCHANGED <<dr, sh, fs, ar>>

StoredSeek ==
    /\ pr.ret # "panic"
    /\ \E pos \in SeekFroms : pr' = PlaintextReaderSeek(pr, pos)
    /\ UNCHANGED <<dr, sh, fs, ar>>

StoredNext == StoredRead \/ StoredSeek

SpecStored == StoredInit /\ [][StoredNext]_vars

(***************************************************************************)
(* Claims about DeflateReader (SpecDeflate).                               *)
(***************************************************************************)
\* the last call was a read into a non-empty buffer that returned Ok(0), and
\* no read before it was handed an empty buffer
DeflateReadEnded == dr.ret = "Ok" /\ dr.n = 0 /\ dr.buf >= 1 /\ dr.nonempty

\* C1: reading a valid DEFLATE entry with non-empty buffers until read
\* returns 0 delivers exactly uncompressed_size bytes: read returns 0 only
\* once every decompressed byte has been delivered.
C1_FullReadDeliversAll ==
    (ValidStream(dr.s) /\ DeflateReadEnded) => dr.delivered = UncompressedSize(dr.s)

\* C4: a corrupted payload (a fatal decode fault, or a stream cut short
\* before its end marker) never ends in a successful 0-byte read: the read
\* fails with "corrupt deflate stream".
C4_CorruptNeverEndsOk ==
    (Faulty(dr.s) \/ CutShort(dr.s)) => ~DeflateReadEnded

\* C5: every failure of a public operation is returned as an error value and
\* none aborts; a seek on a Deflate entry returns an error.
C5_NoAbort == dr.ret # "panic"

(***************************************************************************)
(* Claims about PlaintextReader (SpecStored).                              *)
(***************************************************************************)
FileSlice(from, n) == [ i \in 1..n |-> FileByte(from + i - 1) ]

\* a read returns min(remaining, buffer length) bytes taken from file offset
\* start + position and advances position by that count
StoredReadStep ==
    pr'.op = "read" =>
        LET remaining == pr.end - pr.start - pr.position
            n == Min(remaining, pr'.buf)
        IN  /\ pr'.ret = "Ok"
            /\ pr'.n = n
            /\ pr'.data = FileSlice(pr.start + pr.position, n)
            /\ pr'.position = pr.position + n

\* reads alone deliver the range in order, and a read of a non-empty buffer
\* returns 0 only when all compressed_size bytes have been delivered
StoredDelivered ==
    ~pr.seeked =>
        /\ pr.got = FileSlice(pr.start, pr.position)
        /\ (pr.op = "read" /\ pr.n = 0 /\ pr.buf >= 1) =>
                Len(pr.got) = pr.end - pr.start

\* C2: on a Stored entry whose range lies inside the file every read returns
\* min(remaining, buffer length) bytes from offset start + position and
\* advances position by the count; the reads deliver exactly compressed_size
\* bytes in total and every later read (the first, for a 0-byte entry)
\* returns 0 without error.
C2_StoredRead == [][StoredReadStep]_vars /\ []StoredDelivered

\* a range of two or more bytes behind a non-zero start was read to its end
\* in more than one read, and the next read returned 0
C2_Witness ==
    /\ ~pr.seeked /\ pr.start > 0 /\ pr.end - pr.start >= 2
    /\ Len(pr.got) = pr.end - pr.start
    /\ pr.op = "read" /\ pr.ret = "Ok" /\ pr.n = 0 /\ pr.buf = 1

(***************************************************************************)
(* The shared file handle: Arc<RwLock<File>>.                              *)
(*                                                                         *)
(* Three parties use one handle: "A", a PlaintextReader; "B", a            *)
(* DeflateReader; "O", a caller of ZipArchive::by_name.  Each one's        *)
(* accesses to the file come in units: take `file.write()`, run a list of  *)
(* seeks and reads on the file's one cursor, drop the guard.  A party's    *)
(* record holds pc (where it stands), ops (what is left of its unit), rd   *)
(* (what its reads returned), told (what seek(Current(0)) returned), err   *)
(* (the error that ended the unit early) and at (where its own seek and    *)
(* reads have left the cursor).                                            *)
(***************************************************************************)
LOCAL_FILE_HEADER_SIGNATURE == <<80, 75, 3, 4>>

\* the file: a local header at ShHeader, whose name and extra fields are
\* ShNameLen and ShExtraLen bytes long; every other offset holds a byte of
\* its own
ShFileLen == 80
ShHeader == 2
ShNameLen == 2
ShExtraLen == 1

ShByte(i) ==
    IF i >= ShHeader /\ i < ShHeader + 4 THEN LOCAL_FILE_HEADER_SIGNATURE[i - ShHeader + 1]
    ELSE IF i = ShHeader + 26 THEN ShNameLen
    ELSE IF i = ShHeader + 28 THEN ShExtraLen
    ELSE IF i = ShHeader + 27 \/ i = ShHeader + 29 THEN 0
    ELSE FileByte(i)

ShSlice(from, n) == [ i \in 1..n |-> ShByte(from + i - 1) ]

\* File::read at the cursor into a buffer of n bytes
ShFileRead(cursor, n) == ShSlice(cursor, Min(n, Max(ShFileLen - cursor, 0)))

\* ReadBytesExt::read_u16::<LittleEndian>
Le16(bytes) == bytes[1] + 256 * bytes[2]

OpSeek(at) == [op |-> "seek", at |-> at, n |-> 0]
OpRead(n) == [op |-> "read", at |-> 0, n |-> n]
OpReadExact(n) == [op |-> "read_exact", at |-> 0, n |-> n]
OpExpect == [op |-> "expect", at |-> 0, n |-> 0]
OpTell == [op |-> "tell", at |-> 0, n |-> 0]

\* (a mutant of CanWrite: the shared side of the lock, file.read(), which
\* does not keep the other parties out)
CanWrite_Shared(lock) == TRUE

\* RwLock::write() returns once nobody holds the lock
CanWrite(lock) == lock = {}

\* the unit of PlaintextReader::read
StoredUnit(r, blen) ==
    << OpSeek(r.position + r.start),
       OpRead(Min(r.end - r.start - r.position, blen)) >>

\* the unit of DeflateReader::read: the refill of deflate_buf
RefillUnit(r) == << OpSeek(r.position + r.start), OpRead(DeflateLimit(r)) >>

\* the unit of by_name: the signature of the local header
SignatureUnit(r) == << OpSeek(r.header_start), OpReadExact(4), OpExpect, OpTell >>

\* the unit of find_reader: the name and extra lengths of the local header
LengthsUnit(r) == << OpSeek(r.position + 22), OpReadExact(2), OpReadExact(2) >>

StartUnit(r, ops) == [r EXCEPT !.pc = "lock", !.ops = ops, !.rd = <<>>, !.err = "none"]

ShStoredNew(start, end) ==
    [pc |-> "idle", ops |-> <<>>, rd |-> <<>>, told |-> 0, err |-> "none", at |-> 0,
     start |-> start, end |-> end, position |-> 0,
     got |-> <<>>, ret |-> "none", n |-> 0]

ShDeflateNew(s, start) ==
    [pc |-> "idle", ops |-> <<>>, rd |-> <<>>, told |-> 0, err |-> "none", at |-> 0,
     s |-> s, start |-> start, end |-> start + s.n, position |-> 0,
     decompress |-> NewDecompress, deflate_buf |-> <<>>,
     deflate_size |-> 0, deflate_position |-> 0,
     blen |-> 0, ret |-> "none", n |-> 0, delivered |-> 0]

ShOpenNew(header_start) ==
    [pc |-> "idle", ops |-> <<>>, rd |-> <<>>, told |-> 0, err |-> "none", at |-> 0,
     header_start |-> header_start, stage |-> 0, position |-> 0,
     data_start |-> 0, ret |-> "none"]

\* the streams "B" reads: two refills, the output in the last bytes
ShStreams ==
    { s \in Streams : /\ s.n = DEFLATE_BUF_SIZE + 1 /\ ValidStream(s)
                      /\ s.each = 0 /\ s.last = MaxExpand /\ ~s.lookahead }

SharedInit ==
    /\ sh \in { [cursor |-> 0, lock |-> {},
                 proc |-> [ p \in {"A", "B", "O"} |->
                     CASE p = "A" -> ShStoredNew(35, 35 + len)
                       [] p = "B" -> ShDeflateNew(s, 40)
                       [] p = "O" -> ShOpenNew(ShHeader) ]] :
                len \in 1..ShMaxRange, s \in ShStreams }
    /\ dr = Idle /\ pr = Idle /\ fs = Idle /\ ar = Idle

ShSet(p, r) == [sh EXCEPT !.proc[p] = r]

\* PlaintextReader::read up to its unit
ShStoredCall ==
    /\ sh.proc["A"].pc = "idle"
    /\ \E blen \in 1..ShMaxBuf :
        LET r == sh.proc["A"]
        IN  sh' = ShSet("A",
                IF r.position >= r.end - r.start
                THEN [r EXCEPT !.ret = "Ok", !.n = 0]
                ELSE StartUnit(r, StoredUnit(r, blen)))
    /\ UNCHANGED <<dr, pr, fs, ar>>

\* DeflateReader::read up to the loop
ShDeflateCall ==
    /\ sh.proc["B"].pc = "idle"
    /\ \E blen \in 1..ShMaxBuf :
        LET r == [sh.proc["B"] EXCEPT !.blen = blen]
        IN  sh' = ShSet("B",
                IF r.position >= r.end - r.start
                THEN [r EXCEPT !.ret = "Ok", !.n = 0]
                ELSE IF r.deflate_position = r.deflate_size
                THEN StartUnit(r, RefillUnit(r))
                ELSE [r EXCEPT !.pc = "decode"])
    /\ UNCHANGED <<dr, pr, fs, ar>>

\* the loop of DeflateReader::read after the refill: one call of the engine
ShDeflateDecode ==
    /\ sh.proc["B"].pc = "decode"
    /\ LET r == sh.proc["B"]
           avail == r.deflate_size - r.deflate_position
           eof == avail = 0
           d1 == Inflate(r.decompress, avail, r.blen, r.s)
           ret == DecompressStatus(r.decompress, d1)
           read == d1.total_out - r.decompress.total_out
           consumed == d1.total_in - r.decompress.total_in
           r2 == [r EXCEPT !.decompress = d1,
                           !.deflate_position = @ + consumed,
                           !.position = @ + consumed]
       IN  sh' = ShSet("B",
                IF ret \in {"Ok", "BufError"} /\ read = 0 /\ ~eof /\ r.blen # 0
                THEN IF r2.deflate_position = r2.deflate_size
                     THEN StartUnit(r2, RefillUnit(r2))
                     ELSE r2
                ELSE IF ret \in {"Ok", "BufError", "StreamEnd"}
                THEN [r2 EXCEPT !.pc = "idle", !.ret = "Ok", !.n = read,
                                !.delivered = @ + read]
                ELSE [r2 EXCEPT !.pc = "idle", !.ret = "corrupt deflate stream",
                                !.n = 0])
    /\ UNCHANGED <<dr, pr, fs, ar>>

\* by_name after the lookup of the entry
ShOpenCall ==
    /\ sh.proc["O"].pc = "idle"
    /\ LET r == sh.proc["O"]
       IN  sh' = ShSet("O", StartUnit([r EXCEPT !.stage = 1], SignatureUnit(r)))
    /\ UNCHANGED <<dr, pr, fs, ar>>

\* self.file.write()
ShLock(p) ==
    /\ sh.proc[p].pc = "lock"
    /\ CanWrite(sh.lock)
    /\ sh' = [ShSet(p, [sh.proc[p] EXCEPT !.pc = "io"]) EXCEPT !.lock = @ \cup {p}]
    /\ UNCHANGED <<dr, pr, fs, ar>>

\* what is left of a unit after one of its operations
Advance(r) ==
    [r EXCEPT !.ops = Tail(@), !.pc = IF Len(r.ops) = 1 THEN "unlock" ELSE "io"]

\* an operation that ends the unit with an error (the `?` and the early return)
Abort(r, err) == [r EXCEPT !.ops = <<>>, !.pc = "unlock", !.err = err]

\* file.seek(SeekFrom::Start(at))
ShSeek(p) ==
    /\ sh.proc[p].pc = "io" /\ Head(sh.proc[p].ops).op = "seek"
    /\ LET at == Head(sh.proc[p].ops).at
       IN  sh' = [ShSet(p, Advance([sh.proc[p] EXCEPT !.at = at])) EXCEPT !.cursor = at]
    /\ UNCHANGED <<dr, pr, fs, ar>>

\* file.read(&mut buf[0..n]): what the file holds at the cursor
ShRead(p) ==
    /\ sh.proc[p].pc = "io" /\ Head(sh.proc[p].ops).op = "read"
    /\ LET bytes == ShFileRead(sh.cursor, Head(sh.proc[p].ops).n)
       IN  sh' = [ShSet(p, Advance([sh.proc[p] EXCEPT !.rd = Append(@, bytes),
                                                      !.at = @ + Len(bytes)]))
                    EXCEPT !.cursor = @ + Len(bytes)]
    /\ UNCHANGED <<dr, pr, fs, ar>>

\* file.read_u32 and file.read_u16: read_exact, an error at the end of file
ShReadExact(p) ==
    /\ sh.proc[p].pc = "io" /\ Head(sh.proc[p].ops).op = "read_exact"
    /\ LET n == Head(sh.proc[p].ops).n
           bytes == ShFileRead(sh.cursor, n)
           r == [sh.proc[p] EXCEPT !.at = @ + Len(bytes)]
       IN  sh' = [ShSet(p, IF Len(bytes) < n
                           THEN Abort(r, "Io")
                           ELSE Advance([r EXCEPT !.rd = Append(@, bytes)]))
                    EXCEPT !.cursor = @ + Len(bytes)]
    /\ UNCHANGED <<dr, pr, fs, ar>>

\* if signature != spec::LOCAL_FILE_HEADER_SIGNATURE { return Err(..) }
ShExpect(p) ==
    /\ sh.proc[p].pc = "io" /\ Head(sh.proc[p].ops).op = "expect"
    /\ sh' = ShSet(p, IF sh.proc[p].rd[1] # LOCAL_FILE_HEADER_SIGNATURE
                      THEN Abort(sh.proc[p], "Invalid local file header")
                      ELSE Advance(sh.proc[p]))
    /\ UNCHANGED <<dr, pr, fs, ar>>

\* file.seek(SeekFrom::Current(0))
ShTell(p) ==
    /\ sh.proc[p].pc = "io" /\ Head(sh.proc[p].ops).op = "tell"
    /\ sh' = ShSet(p, Advance([sh.proc[p] EXCEPT !.told = sh.cursor]))
    /\ UNCHANGED <<dr, pr, fs, ar>>

\* a seek or a read that fails: `?` leaves the unit
ShIoError(p) ==
    /\ sh.proc[p].pc = "io"
    /\ Head(sh.proc[p].ops).op \in {"seek", "read", "read_exact", "tell"}
    /\ sh' = ShSet(p, Abort(sh.proc[p], "Io"))
    /\ UNCHANGED <<dr, pr, fs, ar>>

\* what each party does with the result of its unit
AfterStored(r) ==
    IF r.err # "none"
    THEN [r EXCEPT !.pc = "idle", !.ret = r.err, !.n = 0, !.rd = <<>>]
    ELSE [r EXCEPT !.pc = "idle", !.ret = "Ok", !.n = Len(r.rd[1]), !.rd = <<>>,
                   !.position = @ + Len(r.rd[1]), !.got = @ \o r.rd[1]]

AfterRefill(r) ==
    IF r.err # "none"
    THEN [r EXCEPT !.pc = "idle", !.ret = r.err, !.n = 0, !.rd = <<>>]
    ELSE [r EXCEPT !.pc = "decode", !.deflate_buf = r.rd[1], !.rd = <<>>,
                   !.deflate_size = Len(r.rd[1]), !.deflate_position = 0]

AfterSignature(r) ==
    IF r.err # "none"
    THEN [r EXCEPT !.pc = "idle", !.ret = r.err, !.stage = 0, !.rd = <<>>]
    ELSE LET r1 == [r EXCEPT !.position = r.told, !.stage = 2]
         IN  StartUnit(r1, LengthsUnit(r1))

AfterLengths(r) ==
    IF r.err # "none"
    THEN [r EXCEPT !.pc = "idle", !.ret = r.err, !.stage = 0, !.rd = <<>>]
    ELSE [r EXCEPT !.pc = "idle", !.ret = "Ok", !.stage = 0, !.rd = <<>>,
                   !.data_start = r.header_start + (4 + 22 + 2 + 2)
                                    + Le16(r.rd[1]) + Le16(r.rd[2])]

After(p, r) ==
    CASE p = "A" -> AfterStored(r)
      [] p = "B" -> AfterRefill(r)
      [] p = "O" /\ r.stage = 1 -> AfterSignature(r)
      [] p = "O" /\ r.stage = 2 -> AfterLengths(r)

\* the end of the block: the guard is dropped
ShUnlock(p) ==
    /\ sh.proc[p].pc = "unlock"
    /\ sh' = [ShSet(p, [After(p, sh.proc[p]) EXCEPT !.told = 0, !.at = 0])
                EXCEPT !.lock = @ \ {p}]
    /\ UNCHANGED <<dr, pr, fs, ar>>

SharedNext ==
    \/ ShStoredCall \/ ShDeflateCall \/ ShDeflateDecode \/ ShOpenCall
    \/ \E p \in {"A", "B", "O"} :
        \/ ShLock(p) \/ ShSeek(p) \/ ShRead(p) \/ ShReadExact(p)
        \/ ShExpect(p) \/ ShTell(p) \/ ShIoError(p) \/ ShUnlock(p)

SpecShared == SharedInit /\ [][SharedNext]_vars

(***************************************************************************)
(* Claims about the shared file handle (SpecShared).                       *)
(***************************************************************************)
Parties == {"A", "B", "O"}

\* the lock is held by one party at most, by a party inside a unit and by
\* no party outside one: every exit of a unit, failure included, releases it
UnitsExclusive ==
    /\ Cardinality(sh.lock) <= 1
    /\ \A p \in Parties : p \in sh.lock <=> sh.proc[p].pc \in {"io", "unlock"}

\* a party about to read or to ask for the cursor finds the cursor where its
\* own seek and reads left it
CursorOwn ==
    \A p \in Parties :
        (sh.proc[p].pc = "io" /\ Head(sh.proc[p].ops).op # "seek") =>
            sh.cursor = sh.proc[p].at

\* each party has received the bytes it receives when it runs alone: the
\* Stored reader the bytes of its range up to position, the Deflate reader's
\* input buffer the bytes of its range it is at, by_name the header's fields
AsAlone ==
    LET a == sh.proc["A"]
        b == sh.proc["B"]
        o == sh.proc["O"]
    IN  /\ a.got = ShSlice(a.start, a.position)
        /\ a.position <= a.end - a.start
        /\ b.deflate_buf = ShSlice(b.start + b.position - b.deflate_position,
                                   b.deflate_size)
        /\ b.delivered = b.decompress.total_out
        /\ b.position = b.decompress.total_in
        /\ o.ret \in {"none", "Ok", "Io"}
        /\ o.ret = "Ok" => o.data_start = ShHeader + 30 + ShNameLen + ShExtraLen

\* a party's logical position changes only in its own step: the end of its
\* own unit or its own call of the engine
PositionOwn ==
    \A p \in Parties :
        sh'.proc[p].position # sh.proc[p].position =>
            sh.proc[p].pc \in {"unlock", "decode"}

\* C3: with the reads of the readers and the header reads of by_name
\* interleaved, every seek+read unit runs under the exclusive lock, which
\* every exit releases; no read happens at a cursor another party set, each
\* party receives what it receives alone, and no party's position is
\* changed by another.
C3_UnitsAtomic ==
    /\ [](UnitsExclusive /\ CursorOwn /\ AsAlone)
    /\ [][PositionOwn]_vars

\* the three parties interleaved: the Deflate reader is inside its second
\* refill, between seek and read, while the Stored reader, one byte
\* delivered, and by_name, between its two units, wait for the lock
C3_Witness ==
    /\ sh.proc["B"].pc = "io" /\ Head(sh.proc["B"].ops).op = "read"
    /\ sh.proc["B"].position = DEFLATE_BUF_SIZE
    /\ sh.proc["A"].pc = "lock" /\ sh.proc["A"].position = 1
    /\ sh.proc["O"].pc = "lock" /\ sh.proc["O"].stage = 2

(***************************************************************************)
(* spec.rs: CentralDirectoryEnd::find_and_parse                            *)
(*                                                                         *)
(* A file is given by its length, the offsets at which its four bytes read *)
(* as the end-of-central-directory signature, and whether the comment      *)
(* length of the record at such an offset runs past the end of the file.   *)
(***************************************************************************)
HEADER_SIZE == 22
U16_MAX == 65535

\* file_length.saturating_sub(HEADER_SIZE + u16::MAX)
SearchUpperBound(file_length) == Max(file_length - (HEADER_SIZE + U16_MAX), 0)

\* offsets worth a signature: the ends of the searched window and around them
SigPlaces(len) ==
    { q \in { len - HEADER_SIZE + 1, len - HEADER_SIZE, len - HEADER_SIZE - 4,
              SearchUpperBound(len) + 4, SearchUpperBound(len),
              SearchUpperBound(len) - 4 } :
        q >= 0 /\ q + 4 <= len }

\* two signatures cannot overlap
Apart(sigs) == \A q1 \in sigs, q2 \in sigs : q1 = q2 \/ q1 - q2 >= 4 \/ q2 - q1 >= 4

FindLens ==
    {0, 4, HEADER_SIZE - 1, HEADER_SIZE, HEADER_SIZE + 1, HEADER_SIZE + 8}
        \cup { HEADER_SIZE + U16_MAX, HEADER_SIZE + U16_MAX + FindOver }

FindFiles ==
    UNION { { [len |-> len, sigs |-> sigs, overrun |-> o] :
                sigs \in { s \in SUBSET SigPlaces(len) : Cardinality(s) <= 2 /\ Apart(s) },
                o \in BOOLEAN } :
            len \in FindLens }

\* reader.read_u32::<LittleEndian>()? == CENTRAL_DIRECTORY_END_SIGNATURE at pos
SignatureAt(file, pos) == pos \in file.sigs

\* CentralDirectoryEnd::parse at pos: read_exact of the comment fails when
\* the comment length runs past the end of the file
ParseEnd(file, pos) == IF file.overrun THEN "Io" ELSE "Ok"

\* (a mutant of InWindow: the lowest candidate is left out)
InWindow_Exclusive(pos, search_upper_bound) == pos > search_upper_bound

\* while pos >= search_upper_bound
InWindow(pos, search_upper_bound) == pos >= search_upper_bound

FindInit ==
    /\ fs \in { [file |-> f, pc |-> "start", pos |-> 0, search_upper_bound |-> 0,
                 probes |-> 0, ret |-> "none", cde_start_pos |-> 0] :
                f \in FindFiles }
    /\ dr = Idle /\ pr = Idle /\ sh = Idle /\ ar = Idle

\* the length of the file, the bound of the search, the first candidate
FindStart ==
    /\ fs.pc = "start"
    /\ LET file_length == fs.file.len
       IN  fs' = IF file_length < HEADER_SIZE
                 THEN [fs EXCEPT !.pc = "done", !.ret = "Invalid zip header",
                                 !.search_upper_bound = SearchUpperBound(file_length)]
                 ELSE [fs EXCEPT !.pc = "scan", !.pos = file_length - HEADER_SIZE,
                                 !.search_upper_bound = SearchUpperBound(file_length)]
    /\ UNCHANGED <<dr, pr, sh, ar>>

\* one turn of the loop at a candidate that does not hold the signature
FindProbe ==
    /\ fs.pc = "scan"
    /\ InWindow(fs.pos, fs.search_upper_bound)
    /\ ~SignatureAt(fs.file, fs.pos)
    /\ fs' = IF fs.pos = 0
             THEN [fs EXCEPT !.pc = "done", !.probes = @ + 1,
                             !.ret = "Could not find central directory end"]
             ELSE [fs EXCEPT !.pos = @ - 1, !.probes = @ + 1]
    /\ UNCHANGED <<dr, pr, sh, ar>>

\* one turn of the loop at a candidate that holds it: the record is parsed there
FindMatch ==
    /\ fs.pc = "scan"
    /\ InWindow(fs.pos, fs.search_upper_bound)
    /\ SignatureAt(fs.file, fs.pos)
    /\ fs' = [fs EXCEPT !.pc = "done", !.probes = @ + 1,
                        !.ret = ParseEnd(fs.file, fs.pos),
                        !.cde_start_pos = fs.pos]
    /\ UNCHANGED <<dr, pr, sh, ar>>

\* the loop ends below the window
FindGiveUp ==
    /\ fs.pc = "scan"
    /\ ~InWindow(fs.pos, fs.search_upper_bound)
    /\ fs' = [fs EXCEPT !.pc = "done", !.ret = "Could not find central directory end"]
    /\ UNCHANGED <<dr, pr, sh, ar>>

FindNext == FindStart \/ FindProbe \/ FindMatch \/ FindGiveUp

SpecFind == FindInit /\ [][FindNext]_vars

(***************************************************************************)
(* Claims about find_and_parse (SpecFind).                                 *)
(***************************************************************************)
\* the candidates of a file that hold the signature; the candidates are the
\* offsets from length - 22 down to max(0, length - 22 - 65535)
SigCandidates(file) ==
    { q \in file.sigs :
        q <= file.len - HEADER_SIZE /\ q >= Max(file.len - HEADER_SIZE - U16_MAX, 0) }

Highest(S) == CHOOSE q \in S : \A q2 \in S : q2 <= q

\* C8: a file shorter than 22 bytes fails with InvalidArchive; otherwise the
\* candidates from length - 22 down to max(0, length - 22 - 65535) are
\* examined one byte at a time, the record is parsed at the highest one that
\* holds the signature and its position returned; without one the search
\* fails with "Could not find central directory end"; no candidate outside
\* the range or past the end of the file is read.
C8_FindAndParse ==
    LET file == fs.file
        top == file.len - HEADER_SIZE
        low == Max(top - U16_MAX, 0)
    IN  /\ (fs.pc # "start" /\ file.len < HEADER_SIZE) =>
                fs.pc = "done" /\ fs.ret = "Invalid zip header" /\ fs.probes = 0
        /\ (fs.pc = "scan" /\ InWindow(fs.pos, fs.search_upper_bound)) =>
                /\ low <= fs.pos /\ fs.pos <= top /\ fs.pos + 4 <= file.len
                /\ fs.probes = top - fs.pos
                /\ \A q \in file.sigs : ~(fs.pos < q /\ q <= top)
        /\ (fs.pc = "done" /\ file.len >= HEADER_SIZE) =>
                IF SigCandidates(file) = {}
                THEN /\ fs.ret = "Could not find central directory end"
                     /\ fs.probes = top - low + 1
                ELSE /\ fs.ret \in {"Ok", "Io"}
                     /\ fs.ret = "Ok" <=> ~file.overrun
                     /\ fs.cde_start_pos = Highest(SigCandidates(file))
                     /\ fs.probes = top - fs.cde_start_pos + 1

\* a file longer than the longest end record, whose only signatures stand at
\* the lowest candidate and 4 bytes below it: the search ran through the
\* whole window and found the record at its lowest candidate, above offset 0
C8_Witness ==
    /\ fs.pc = "done" /\ fs.ret = "Ok"
    /\ fs.file.len > HEADER_SIZE + U16_MAX + 3
    /\ fs.cde_start_pos = fs.file.len - HEADER_SIZE - U16_MAX
    /\ fs.cde_start_pos - 4 \in fs.file.sigs
    /\ fs.probes = U16_MAX + 1

(***************************************************************************)
(* result.rs, spec.rs: errors, compression methods, little-endian reads    *)
(***************************************************************************)
NoErr == [kind |-> "none", msg |-> "", method |-> 0]
IoErr == [kind |-> "Io", msg |-> "", method |-> 0]
InvalidArchive(msg) == [kind |-> "InvalidArchive", msg |-> msg, method |-> 0]
UnsupportedArchive == [kind |-> "UnsupportedArchive", msg |-> "", method |-> 0]
UnsupportedAesExtraData == [kind |-> "UnsupportedAesExtraData", msg |-> "", method |-> 0]
UnsupportedCompressionMethod(v) ==
    [kind |-> "UnsupportedCompressionMethod", msg |-> "", method |-> v]
FileNotFound == [kind |-> "FileNotFound", msg |-> "", method |-> 0]

ZIP64_BYTES_THR == 2 ^ W32 - 1

FromU16(val) ==
    CASE val = 0 -> [tag |-> "Stored", v |-> 0]
      [] val = 8 -> [tag |-> "Deflate", v |-> 8]
      [] OTHER -> [tag |-> "Unsupported", v |-> val]

\* read_u16::<LittleEndian> of the two bytes after the first p bytes of x
ReadU16(x, p) == x[p + 1] + 256 * x[p + 2]

\* the little-endian value of the n bytes after the first p bytes of x,
\* modulo m
RECURSIVE LeMod(_, _, _, _)
LeMod(x, p, n, m) ==
    IF n = 0 THEN 0 ELSE (x[p + 1] + 256 * LeMod(x, p + 1, n - 1, m)) % m

\* read_u64::<LittleEndian>, in the model's 64-bit words
ReadU64(x, p) == LeMod(x, p, 8, U64_MOD)

(***************************************************************************)
(* zip_file.rs: parse_extra_field                                          *)
(***************************************************************************)
\* One conditional field of the ZIP64 record: when the field still holds
\* the sentinel, (mark the entry and) read eight bytes into it.  s is the
\* state of the walk: the entry, the cursor, len_left and the error.
Zip64Field(s, field, marks) ==
    IF s.err.kind # "none" \/ s.file[field] # ZIP64_BYTES_THR THEN s
    ELSE LET f == IF marks THEN [s.file EXCEPT !.large_file = TRUE] ELSE s.file
         IN  IF s.pos + 8 > Len(f.extra_field)
             THEN [s EXCEPT !.file = f, !.err = IoErr]
             ELSE [s EXCEPT !.file = [f EXCEPT ![field] = ReadU64(f.extra_field, s.pos)],
                            !.pos = s.pos + 8,
                            !.len_left = s.len_left - 8]

Zip64Record(s) ==
    Zip64Field(Zip64Field(Zip64Field(s, "uncompressed_size", TRUE),
                          "compressed_size", TRUE),
               "header_start", FALSE)

\* The AES record: seven bytes are read, len_left is left as it was.
AesRecord(s, len) ==
    LET x == s.file.extra_field
        vendor_version == ReadU16(x, s.pos)
        vendor_id == ReadU16(x, s.pos + 2)
        aes_mode == x[s.pos + 5]
        compression_method == ReadU16(x, s.pos + 5)
    IN  IF len # 7 THEN [s EXCEPT !.err = UnsupportedAesExtraData]
        ELSE IF s.pos + 7 > Len(x) THEN [s EXCEPT !.err = IoErr]
        ELSE IF vendor_id # 17729
             THEN [s EXCEPT !.err = InvalidArchive("Invalid AES vendor")]
        ELSE IF vendor_version \notin {1, 2}
             THEN [s EXCEPT !.err = InvalidArchive("Invalid AES vendor version")]
        ELSE IF aes_mode \notin {1, 2, 3}
             THEN [s EXCEPT !.err = InvalidArchive("Invalid AES encryption strength")]
        ELSE [s EXCEPT !.file = [s.file EXCEPT
                                   !.aes_mode = <<aes_mode, vendor_version>>,
                                   !.compression_method = FromU16(compression_method)],
                       !.pos = s.pos + 7]

\* how far the cursor moves after a record was handled (lines 209-211)
SkipLeft(s) == IF s.len_left > 0 THEN s.pos + s.len_left ELSE s.pos

\* the loop of parse_extra_field with the cursor after the first pos bytes:
\* the entry and the error it ends with, and the places where it read the
\* kind and length of a record
RECURSIVE ParseExtraLoop(_, _)
ParseExtraLoop(f, pos) ==
    LET x == f.extra_field
    IN  IF ~(pos < Len(x)) THEN [file |-> f, err |-> NoErr, places |-> {}]
        ELSE IF pos + 4 > Len(x) THEN [file |-> f, err |-> IoErr, places |-> {}]
        ELSE LET kind == ReadU16(x, pos)
                 len == ReadU16(x, pos + 2)
                 s0 == [file |-> f, pos |-> pos + 4, len_left |-> len, err |-> NoErr]
                 s1 == CASE kind = 1 -> Zip64Record(s0)
                         [] kind = 39169 -> AesRecord(s0, len)
                         [] OTHER -> s0
             IN  IF s1.err.kind # "none"
                 THEN [file |-> s1.file, err |-> s1.err, places |-> {pos}]
                 ELSE [ParseExtraLoop(s1.file, SkipLeft(s1)) EXCEPT !.places = @ \cup {pos}]

ParseExtraField(f) == ParseExtraLoop(f, 0)

(***************************************************************************)
(* zip_file.rs, zip_archive.rs: one central header                         *)
(***************************************************************************)
\* String::from_utf8_lossy on name bytes that are ASCII or, from 0xF8 up,
\* never part of UTF-8: each of the latter becomes U+FFFD
FromUtf8Lossy(raw) == [i \in 1..Len(raw) |-> IF raw[i] < 128 THEN raw[i] ELSE 65533]

\* the legacy-codepage decoder: ASCII is kept, every other byte has a
\* character of its own
FromCp437(raw) == [i \in 1..Len(raw) |-> IF raw[i] < 128 THEN raw[i] ELSE 256 + raw[i]]

FileName(h) == IF h.is_utf8 THEN FromUtf8Lossy(h.file_name_raw)
               ELSE FromCp437(h.file_name_raw)

\* the bytes of a central header: 46 fixed, then name, extra field, comment
HeaderSize(h) == 46 + Len(h.file_name_raw) + Len(h.extra_field) + h.file_comment_length

\* header_start.checked_add(archive_offset)
CheckedAdd_Dropped(a, b) == a
CheckedAdd(a, b) == IF a + b < U64_MOD THEN a + b ELSE -1

\* central_header_to_zip_file_inner on the fields of header h
CentralHeaderToZipFileInner(h, archive_offset, central_header_start) ==
    LET result == [compression_method |-> FromU16(h.compression_method),
                   compressed_size |-> h.compressed_size,
                   uncompressed_size |-> h.uncompressed_size,
                   file_name |-> FileName(h),
                   extra_field |-> h.extra_field,
                   header_start |-> h.offset,
                   central_header_start |-> central_header_start,
                   large_file |-> FALSE,
                   aes_mode |-> <<>>]
        parsed == ParseExtraField(result)
        r == parsed.file
    IN  IF parsed.err.kind \notin {"none", "Io"}
        THEN [err |-> parsed.err, data |-> r]
        ELSE IF r.compression_method.tag = "Unsupported"
        THEN [err |-> UnsupportedCompressionMethod(r.compression_method.v), data |-> r]
        ELSE IF CheckedAdd(r.header_start, archive_offset) = -1
        THEN [err |-> InvalidArchive("Archive header is too large"), data |-> r]
        ELSE [err |-> NoErr,
              data |-> [r EXCEPT !.header_start = CheckedAdd(r.header_start, archive_offset)]]

\* central_header_to_zip_file with the file cursor at c: the error or the
\* entry, and the cursor afterwards.  file.starts[i] is where header i of
\* file.headers sits.
PlacedAt(file, c) == { i \in 1..Len(file.headers) : file.starts[i] = c }

CentralHeaderToZipFile(file, c, archive_offset) ==
    IF c + 4 > file.len
    THEN [err |-> IoErr, data |-> <<>>, end |-> file.len]
    ELSE IF \A i \in PlacedAt(file, c) : ~file.headers[i].signature
    THEN [err |-> InvalidArchive("Invalid Central Directory header"),
          data |-> <<>>, end |-> c + 4]
    ELSE LET h == file.headers[CHOOSE i \in PlacedAt(file, c) : TRUE]
             r == CentralHeaderToZipFileInner(h, archive_offset, c)
         IN  [err |-> r.err, data |-> r.data, end |-> c + HeaderSize(h)]

(***************************************************************************)
(* zip_archive.rs: get_directory_counts                                    *)
(***************************************************************************)
RecordTooSmall(footer) ==
    \/ footer.disk_number = U16_MAX
    \/ footer.disk_with_central_directory = U16_MAX
    \/ footer.number_of_files_on_this_disk = U16_MAX
    \/ footer.number_of_files = U16_MAX
    \/ footer.central_directory_size = ZIP64_BYTES_THR
    \/ footer.central_directory_offset = ZIP64_BYTES_THR

\* the locator parsed 20 + 22 + comment bytes before the end of the file:
\* the empty set when the seek fails or the signature is not there
Zip64Locator(file, footer) ==
    LET at == file.len - (20 + 22 + footer.zip_file_comment_len)
    IN  IF at < 0 THEN {} ELSE { l \in file.locators : l.at = at }

\* Zip64CentralDirectoryEnd::find_and_parse: the record at the first
\* position from nominal_offset to search_upper_bound that holds its
\* signature
Zip64FindAndParse(file, nominal_offset, search_upper_bound) ==
    LET found == { r \in file.zip64_ends :
                     nominal_offset <= r.at /\ r.at <= search_upper_bound }
    IN  IF found = {}
        THEN [err |-> InvalidArchive("Could not find ZIP64 central directory end")]
        ELSE LET r == CHOOSE r \in found : \A q \in found : r.at <= q.at
             IN  [err |-> NoErr, footer |-> r, archive_offset |-> r.at - nominal_offset]

CountsErr(e) ==
    [err |-> e, archive_offset |-> 0, directory_start |-> 0, number_of_files |-> 0]

\* the subtractions done without their checks, in 64-bit words
LegacyCounts_Wrapping(footer, cde_start_pos) ==
    LET archive_offset == (cde_start_pos - footer.central_directory_size
                                         - footer.central_directory_offset) % U64_MOD
    IN  [err |-> NoErr,
         archive_offset |-> archive_offset,
         directory_start |-> (footer.central_directory_offset + archive_offset) % U64_MOD,
         number_of_files |-> footer.number_of_files_on_this_disk]
LegacyCounts(footer, cde_start_pos) ==
    IF cde_start_pos < footer.central_directory_size
       \/ cde_start_pos - footer.central_directory_size < footer.central_directory_offset
    THEN CountsErr(InvalidArchive("Invalid central directory size or offset"))
    ELSE LET archive_offset == cde_start_pos - footer.central_directory_size
                                             - footer.central_directory_offset
         IN  [err |-> NoErr,
              archive_offset |-> archive_offset,
              directory_start |-> footer.central_directory_offset + archive_offset,
              number_of_files |-> footer.number_of_files_on_this_disk]

Zip64Counts(file, footer, cde_start_pos, locator64) ==
    IF ~RecordTooSmall(footer) /\ footer.disk_number # locator64.disk_with_central_directory
    THEN CountsErr(UnsupportedArchive)
    ELSE IF cde_start_pos < 60
    THEN CountsErr(InvalidArchive("File cannot contain ZIP64 central directory end"))
    ELSE LET f == Zip64FindAndParse(file, locator64.end_of_central_directory_offset,
                                    cde_start_pos - 60)
         IN  IF f.err.kind # "none" THEN CountsErr(f.err)
             ELSE IF f.footer.disk_number # f.footer.disk_with_central_directory
             THEN CountsErr(UnsupportedArchive)
             ELSE IF CheckedAdd(f.footer.central_directory_offset, f.archive_offset) = -1
             THEN CountsErr(InvalidArchive("Invalid central directory size or offset"))
             ELSE [err |-> NoErr,
                   archive_offset |-> f.archive_offset,
                   directory_start |-> CheckedAdd(f.footer.central_directory_offset,
                                                  f.archive_offset),
                   number_of_files |-> f.footer.number_of_files]

GetDirectoryCounts(file, footer, cde_start_pos) ==
    LET zip64locator == Zip64Locator(file, footer)
    IN  IF zip64locator = {} THEN LegacyCounts(footer, cde_start_pos)
        ELSE Zip64Counts(file, footer, cde_start_pos, CHOOSE l \in zip64locator : TRUE)

(***************************************************************************)
(* Archive files.                                                          *)
(***************************************************************************)
\* the bytes of extra-field records, as an archiver writes them
U16Bytes(v) == <<v % 256, v \div 256>>
U64Bytes(v) == <<v % 256, (v \div 256) % 256, 0, 0, 0, 0, 0, 0>>
ExtraRecord(kind, payload) == U16Bytes(kind) \o U16Bytes(Len(payload)) \o payload
RECURSIVE U64sBytes(_)
U64sBytes(vals) == IF vals = <<>> THEN <<>> ELSE U64Bytes(Head(vals)) \o U64sBytes(Tail(vals))
Zip64Extra(vals) == ExtraRecord(1, U64sBytes(vals))
AesExtra(vendor_version, vendor_id, aes_mode, compression_method) ==
    ExtraRecord(39169, U16Bytes(vendor_version) \o U16Bytes(vendor_id)
                       \o <<aes_mode>> \o U16Bytes(compression_method))
\* a record of a kind the reader does not interpret (extended timestamp)
OtherExtra == ExtraRecord(21589, <<3, 7>>)

\* 64-bit sizes that do not fit 32 bits
BigU == ZIP64_BYTES_THR + 45
BigC == ZIP64_BYTES_THR + 9

Header(name, is_utf8, method, csize, usize, offset, extra, comment_len) ==
    [signature |-> TRUE, is_utf8 |-> is_utf8, compression_method |-> method,
     compressed_size |-> csize, uncompressed_size |-> usize, offset |-> offset,
     file_name_raw |-> name, extra_field |-> extra, file_comment_length |-> comment_len]

\* the central headers archives are built from
PlainHeaders ==
    { Header(<<97>>, FALSE, 0, 3, 3, 0, <<>>, 0),
      Header(<<98>>, FALSE, 8, 2, 5, LocalGap, OtherExtra, 1),
      Header(<<97>>, FALSE, 8, 2, 5, LocalGap, <<>>, 0),
      Header(<<98>>, FALSE, 99, 3, 3, 0, OtherExtra, 2),
      Header(<<97>>, FALSE, 99, 3, 3, 0, <<>>, 0),
      Header(<<255>>, TRUE, 0, 3, 3, 0, <<>>, 0),
      Header(<<254>>, TRUE, 8, 2, 5, LocalGap, <<>>, 0),
      Header(<<255>>, FALSE, 0, 3, 3, 7, <<>>, 1),
      [Header(<<98>>, FALSE, 0, 3, 3, 0, <<>>, 0) EXCEPT !.signature = FALSE] }

Zip64Headers ==
    LET T == ZIP64_BYTES_THR
    IN  { Header(<<97>>, FALSE, 8, T, T, 0, Zip64Extra(<<BigU, BigC>>), 0),
          Header(<<98>>, FALSE, 0, T, T, T, Zip64Extra(<<BigU, BigC, LocalGap>>), 0),
          Header(<<98>>, FALSE, 8, T, 7, LocalGap, Zip64Extra(<<U64_MOD - 1>>), 0),
          Header(<<97>>, FALSE, 0, 3, 3, T, Zip64Extra(<<LocalGap>>), 1),
          Header(<<97>>, FALSE, 0, T, 3, 0, <<>>, 0),
          Header(<<98>>, FALSE, 0, T, T, 0, Zip64Extra(<<BigU>>), 0),
          Header(<<98>>, FALSE, 8, T, 3, LocalGap, OtherExtra \o Zip64Extra(<<BigC>>), 0),
          Header(<<97>>, FALSE, 0, 3, 3, T, Zip64Extra(<<U64_MOD - 1>>), 0) }

AesHeaders ==
    LET T == ZIP64_BYTES_THR
    IN  { Header(<<97>>, FALSE, 99, 3, 3, 0, AesExtra(2, 17729, 3, 8), 0),
          Header(<<98>>, FALSE, 99, 3, 3, 0, AesExtra(1, 17729, 1, 14), 0),
          Header(<<98>>, FALSE, 99, 3, 3, 0, ExtraRecord(39169, <<2, 0, 65, 69, 3, 8>>), 0),
          Header(<<98>>, FALSE, 99, 3, 3, 0, AesExtra(2, 0, 3, 8), 0),
          Header(<<97>>, FALSE, 99, T, 3, T,
                 AesExtra(2, 17729, 3, 8) \o Zip64Extra(<<BigC, LocalGap>>), 0),
          Header(<<98>>, FALSE, 99, T, T, 0,
                 Zip64Extra(<<BigU, BigC>>) \o AesExtra(2, 17729, 3, 0), 0) }

Headers == PlainHeaders \cup Zip64Headers \cup AesHeaders

Directories(n) == UNION { [1..k -> Headers] : k \in 0..n }

RECURSIVE DirectorySize(_)
DirectorySize(hdrs) ==
    IF hdrs = <<>> THEN 0 ELSE HeaderSize(Head(hdrs)) + DirectorySize(Tail(hdrs))

\* where the headers of a directory that begins at `at` sit
Starts(hdrs, at) == [i \in 1..Len(hdrs) |-> at + DirectorySize(SubSeq(hdrs, 1, i - 1))]

LegacyKinds == {"legacy", "comment", "more", "fewer", "size_over", "offset_over",
                "multi_disk", "sentinel_disk", "multi_disk_many"}
Zip64Kinds == {"zip64", "zip64_kept", "locator_disk", "record_disk", "no_record",
               "nominal_late", "offset_max", "offset_far"}
FindErrs == {InvalidArchive("Could not find central directory end"), IoErr}

\* An archive: `prefix` bytes, two local headers LocalGap apart, the
\* central directory, for ZIP64 its end record (56 bytes) and locator (20
\* bytes), then the end record.  `kind` says how the trailing records are
\* filled in; every kind but "legacy", "comment", "zip64" and "zip64_kept"
\* describes a damaged or unsupported archive ("multi_disk_many" is the last
\* disk of a set that holds 65535 files or more in all).
Archive(prefix, hdrs, kind) ==
    LET n == Len(hdrs)
        size == DirectorySize(hdrs)
        offset == 2 * LocalGap
        dir_at == prefix + offset
        z == kind \in Zip64Kinds
        sentinels == kind \in Zip64Kinds \ {"zip64_kept", "locator_disk"}
        cde == dir_at + size + (IF z THEN 76 ELSE 0)
        comment_len == IF kind = "comment" THEN 3 ELSE 0
        count == CASE kind = "more" -> n + 1
                   [] kind = "fewer" -> Max(n - 1, 0)
                   [] OTHER -> n
    IN  [len |-> cde + 22 + comment_len,
         find_err |-> NoErr,
         cde_start_pos |-> cde,
         footer |->
           [disk_number |-> CASE kind \in {"multi_disk", "multi_disk_many"} -> 1
                              [] kind = "sentinel_disk" -> U16_MAX
                              [] OTHER -> 0,
            disk_with_central_directory |-> IF kind = "sentinel_disk" THEN 1 ELSE 0,
            number_of_files_on_this_disk |-> IF sentinels THEN U16_MAX ELSE count,
            number_of_files |-> IF sentinels \/ kind = "multi_disk_many"
                                THEN U16_MAX ELSE count,
            central_directory_size |-> CASE sentinels -> ZIP64_BYTES_THR
                                         [] kind = "size_over" -> cde + 1
                                         [] OTHER -> size,
            central_directory_offset |-> CASE sentinels -> ZIP64_BYTES_THR
                                           [] kind = "offset_over" -> dir_at + 1
                                           [] OTHER -> offset,
            zip_file_comment_len |-> comment_len],
         locators |->
           IF ~z THEN {}
           ELSE {[at |-> cde - 20,
                  disk_with_central_directory |-> IF kind = "locator_disk" THEN 1 ELSE 0,
                  end_of_central_directory_offset |->
                      IF kind = "nominal_late" THEN cde - 59 ELSE offset + size,
                  number_of_disks |-> 1]},
         zip64_ends |->
           IF ~z \/ kind = "no_record" THEN {}
           ELSE {[at |-> dir_at + size,
                  disk_number |-> IF kind = "record_disk" THEN 1 ELSE 0,
                  disk_with_central_directory |-> 0,
                  number_of_files |-> n,
                  central_directory_size |-> size,
                  central_directory_offset |->
                      CASE kind = "offset_max" -> U64_MOD - 1
                        [] kind = "offset_far" -> I64_MAX - prefix
                        [] OTHER -> offset]},
         headers |-> hdrs,
         starts |-> Starts(hdrs, dir_at),
         locals |-> {[at |-> prefix, file_name_length |-> 1, extra_field_length |-> 0],
                     [at |-> prefix + LocalGap, file_name_length |-> 1,
                      extra_field_length |-> 4]}]

\* a file that is little more than its end record, which sits at cde
Tiny(cde, with_locator, find_err) ==
    [len |-> cde + 22,
     find_err |-> find_err,
     cde_start_pos |-> cde,
     footer |-> [disk_number |-> 0, disk_with_central_directory |-> 0,
                 number_of_files_on_this_disk |-> 0, number_of_files |-> 0,
                 central_directory_size |-> 0, central_directory_offset |-> cde,
                 zip_file_comment_len |-> 0],
     locators |-> IF with_locator /\ cde >= 20
                  THEN {[at |-> cde - 20, disk_with_central_directory |-> 0,
                         end_of_central_directory_offset |-> 0, number_of_disks |-> 1]}
                  ELSE {},
     zip64_ends |-> {},
     headers |-> <<>>,
     starts |-> <<>>,
     locals |-> {}]

Archives ==
    { Archive(prefix, hdrs, kind) :
        prefix \in {0, PrefixLen}, hdrs \in Directories(MaxHeaders),
        kind \in {"legacy", "zip64"} }
    \cup { Archive(prefix, hdrs, kind) :
             prefix \in {0, PrefixLen}, hdrs \in Directories(1),
             kind \in LegacyKinds \cup Zip64Kinds }
    \cup { Tiny(cde, l, NoErr) : cde \in {0, 19, 20, 59}, l \in BOOLEAN }
    \cup { Tiny(0, FALSE, e) : e \in FindErrs }

(***************************************************************************)
(* zip_archive.rs: ZipArchive::new and by_name                             *)
(***************************************************************************)
NoReader == [kind |-> "none", start |-> 0, end |-> 0]

OpenInit ==
    /\ ar \in { [file |-> f, pc |-> "new", ret |-> NoErr,
                 archive_offset |-> 0, directory_start |-> 0, number_of_files |-> 0,
                 cursor |-> 0, done |-> 0, entries |-> <<>>, seen |-> <<>>,
                 name |-> <<>>, reader |-> NoReader] : f \in Archives }
    /\ dr = Idle /\ pr = Idle /\ sh = Idle /\ fs = Idle

Fail(e) == [ar EXCEPT !.pc = "failed", !.ret = e]

\* new, lines 20-26: the end record is found and the disks are compared
OpenFind ==
    /\ ar.pc = "new"
    /\ LET footer == ar.file.footer
       IN  ar' = IF ar.file.find_err.kind # "none" THEN Fail(ar.file.find_err)
                 ELSE IF ~RecordTooSmall(footer)
                         /\ footer.disk_number # footer.disk_with_central_directory
                 THEN Fail(UnsupportedArchive)
                 ELSE [ar EXCEPT !.pc = "counts"]
    /\ UNCHANGED <<dr, pr, sh, fs>>

\* new, lines 28-43: the directory is located and the file cursor set
OpenCounts ==
    /\ ar.pc = "counts"
    /\ LET c == GetDirectoryCounts(ar.file, ar.file.footer, ar.file.cde_start_pos)
       IN  ar' = IF c.err.kind # "none" THEN Fail(c.err)
                 ELSE IF c.directory_start > I64_MAX
                 THEN Fail(InvalidArchive("Could not seek to start of central directory"))
                 ELSE [ar EXCEPT !.pc = "enumerate",
                                 !.archive_offset = c.archive_offset,
                                 !.directory_start = c.directory_start,
                                 !.number_of_files = c.number_of_files,
                                 !.cursor = c.directory_start]
    /\ UNCHANGED <<dr, pr, sh, fs>>

\* HashMap::insert
Insert_KeepFirst(entries, key, value) ==
    [k \in DOMAIN entries \cup {key} |-> IF k \in DOMAIN entries THEN entries[k] ELSE value]
Insert(entries, key, value) ==
    [k \in DOMAIN entries \cup {key} |-> IF k = key THEN value ELSE entries[k]]

\* the failure of a header that the loop answers with `continue`
Skipped_Never(e) == FALSE
Skipped(e) == e.kind = "UnsupportedCompressionMethod"

\* new, lines 45-57: one turn of the loop over the central headers
OpenEntry ==
    /\ ar.pc = "enumerate"
    /\ ar.done < ar.number_of_files
    /\ LET r == CentralHeaderToZipFile(ar.file, ar.cursor, ar.archive_offset)
           saw == Append(ar.seen, [at |-> ar.cursor, err |-> r.err])
       IN  ar' = CASE r.err.kind = "none" ->
                        [ar EXCEPT !.entries = Insert(@, r.data.file_name, r.data),
                                   !.cursor = r.end, !.done = @ + 1, !.seen = saw]
                   [] r.err.kind # "none" /\ Skipped(r.err) ->
                        [ar EXCEPT !.cursor = r.end, !.done = @ + 1, !.seen = saw]
                   [] OTHER -> [Fail(r.err) EXCEPT !.seen = saw]
    /\ UNCHANGED <<dr, pr, sh, fs>>

\* new, lines 59-61
OpenDone ==
    /\ ar.pc = "enumerate"
    /\ ar.done >= ar.number_of_files
    /\ ar' = [ar EXCEPT !.pc = "open"]
    /\ UNCHANGED <<dr, pr, sh, fs>>

\* a read of the file fails while new runs
OpenIoError ==
    /\ ar.pc \in {"new", "counts", "enumerate"}
    /\ ar' = Fail(IoErr)
    /\ UNCHANGED <<dr, pr, sh, fs>>

\* find_reader: the byte range of the entry.  An end past the 64-bit range
\* panics where overflow checks are compiled in and wraps where not.
FindReader(file, data, position, overflow_checks) ==
    LET local == CHOOSE l \in file.locals : l.at + 4 = position
        data_start == data.header_start + 30 + local.file_name_length
                                             + local.extra_field_length
        end == data_start + data.compressed_size
    IN  IF end >= U64_MOD /\ overflow_checks
        THEN [ret |-> [kind |-> "panic", msg |-> "", method |-> 0], reader |-> NoReader]
        ELSE [ret |-> NoErr,
              reader |-> [kind |-> data.compression_method.tag,
                          start |-> data_start, end |-> end % U64_MOD]]

ByNameResult(a, name, overflow_checks) ==
    IF name \notin DOMAIN a.entries THEN [ret |-> FileNotFound, reader |-> NoReader]
    ELSE LET data == a.entries[name]
         IN  IF data.header_start > I64_MAX \/ data.header_start + 4 > a.file.len
             THEN [ret |-> IoErr, reader |-> NoReader]
             ELSE IF \A l \in a.file.locals : l.at # data.header_start
             THEN [ret |-> InvalidArchive("Invalid local file header"),
                   reader |-> NoReader]
             ELSE FindReader(a.file, data, data.header_start + 4, overflow_checks)

\* the names by_name is asked for
Names == { FileName(h) : h \in Headers } \cup { <<99>> }

ByName ==
    /\ ar.pc = "open"
    /\ \E name \in Names, overflow_checks, io_fails \in BOOLEAN :
         LET r == ByNameResult(ar, name, overflow_checks)
         IN  ar' = [ar EXCEPT !.name = name,
                              !.ret = IF io_fails /\ name \in DOMAIN ar.entries
                                      THEN IoErr ELSE r.ret,
                              !.reader = IF io_fails THEN NoReader ELSE r.reader]
    /\ UNCHANGED <<dr, pr, sh, fs>>

OpenNext == OpenFind \/ OpenCounts \/ OpenEntry \/ OpenDone \/ OpenIoError \/ ByName

SpecOpen == OpenInit /\ [][OpenNext]_vars

(***************************************************************************)
(* Claims about ZipArchive::new and by_name.                               *)
(***************************************************************************)
\* the central header of the file that begins at offset c
HeaderAt(file, c) == file.headers[CHOOSE i \in 1..Len(file.headers) : file.starts[i] = c]

LastSeen(a) == a.seen[Len(a.seen)]

\* One turn of the enumeration loop: a header whose resolved method is
\* unsupported leaves the index as it was and the next header is read from
\* the byte after its name, extra field and comment; a header that fails
\* in any other way ends new with that failure.
EnumerationStep ==
    (ar.pc = "enumerate" /\ Len(ar'.seen) = Len(ar.seen) + 1) =>
        LET e == LastSeen(ar')
        IN  /\ e.at = ar.cursor
            /\ e.err.kind = "UnsupportedCompressionMethod" =>
                 /\ ar'.pc = "enumerate"
                 /\ ar'.entries = ar.entries
                 /\ ar'.done = ar.done + 1
                 /\ ar'.cursor = e.at + HeaderSize(HeaderAt(ar.file, e.at))
            /\ e.err.kind \notin {"none", "UnsupportedCompressionMethod"} =>
                 ar'.pc = "failed" /\ ar'.ret = e.err

\* an archive whose directory is one header with method code 99 and no
\* AES record
OnlyMethod99(file) ==
    /\ Len(file.headers) = 1
    /\ file.headers[1].compression_method = 99
    /\ file.headers[1].extra_field \in {<<>>, OtherExtra}

EmptyIndexOpens ==
    /\ (ar.pc = "open" /\ OnlyMethod99(ar.file)) => ar.entries = <<>>
    /\ (ar.pc = "failed" /\ ar.seen # <<>>
          /\ LastSeen(ar).err.kind = "UnsupportedCompressionMethod") => ar.ret = IoErr

\* C6: during the enumeration of ZipArchive::new a header whose resolved
\* compression method is neither Stored nor Deflate is left out of the
\* index and the next header is read from the byte right after its name,
\* extra and comment blocks, so that open still succeeds (an archive whose
\* only entry has method 99 opens with an empty index); a header that fails
\* with any other error makes open fail with that error.
C6_SkipUnsupported == [][EnumerationStep]_vars /\ []EmptyIndexOpens

C6_Witness ==
    /\ ar.pc = "open"
    /\ Len(ar.seen) = 2
    /\ ar.seen[1].err.kind = "UnsupportedCompressionMethod"
    /\ HeaderAt(ar.file, ar.seen[1].at).extra_field # <<>>
    /\ HeaderAt(ar.file, ar.seen[1].at).file_comment_length > 0
    /\ ar.seen[2].err.kind = "none"
    /\ DOMAIN ar.entries = {FileName(HeaderAt(ar.file, ar.seen[2].at))}

\* what the code makes of header i of the directory of an open archive
Parsed(a, i) ==
    CentralHeaderToZipFileInner(a.file.headers[i], a.archive_offset, a.file.starts[i])

\* the headers of the directory that were not skipped
Kept(a) == { i \in 1..a.number_of_files : Parsed(a, i).err.kind = "none" }

KeptAs(a, name) == { i \in Kept(a) : FileName(a.file.headers[i]) = name }

LastWriteWins ==
    ar.pc = "open" =>
        /\ ar.number_of_files <= Len(ar.file.headers)
        /\ ar.number_of_files > 0 => ar.directory_start = ar.file.starts[1]
        /\ DOMAIN ar.entries = { FileName(ar.file.headers[i]) : i \in Kept(ar) }
        /\ \A name \in DOMAIN ar.entries :
             ar.entries[name] = Parsed(ar, Highest(KeptAs(ar, name))).data

ByNameStep ==
    ar.pc = "open" =>
        /\ ar'.entries = ar.entries
        /\ ar'.name \notin DOMAIN ar.entries => ar'.ret = FileNotFound

\* C7: after ZipArchive::new succeeds the index maps each name to the
\* metadata of the last central header, in directory order, that carries
\* the name among the headers that were not skipped, and holds no other
\* name; by_name on a name that is not in the index fails with
\* FileNotFound, and by_name never changes the index.
C7_LastWriteWins == []LastWriteWins /\ [][ByNameStep]_vars

C7_Witness ==
    /\ ar.pc = "open"
    /\ \E name \in DOMAIN ar.entries : Cardinality(KeptAs(ar, name)) = 2
    /\ ar.name \notin DOMAIN ar.entries
    /\ ar.ret = FileNotFound

\* the places of the records of extra field x from place p on, each record
\* four bytes and its declared length after the one before
RECURSIVE RecordPlaces(_, _)
RecordPlaces(x, p) ==
    IF p + 4 > Len(x) THEN {}
    ELSE {p} \cup RecordPlaces(x, p + 4 + ReadU16(x, p + 2))

\* the ZIP64 records of x that lie in x whole
Zip64Places(x) ==
    { p \in RecordPlaces(x, 0) : ReadU16(x, p) = 1 /\ p + 4 + ReadU16(x, p + 2) <= Len(x) }

\* the 8-byte values that the ZIP64 records of x hold
Zip64Slots(x) ==
    UNION { { ReadU64(x, p + 4 + 8 * j) : j \in { k \in 0..2 : 8 * (k + 1) <= ReadU16(x, p + 2) } } :
            p \in Zip64Places(x) }

\* the local-header offsets a central header can declare: its 32-bit field
\* or, when that holds the sentinel, a value of its ZIP64 record
DeclaredOffsets(h) ==
    {h.offset} \cup (IF h.offset = ZIP64_BYTES_THR THEN Zip64Slots(h.extra_field) ELSE {})

Legacy(file) == Zip64Locator(file, file.footer) = {}

\* the directory offset the trailing records declare
DeclaredDirectory(file) ==
    IF Legacy(file) THEN {file.footer.central_directory_offset}
    ELSE { r.central_directory_offset : r \in file.zip64_ends }

OneArchiveOffset ==
    ar.pc \in {"enumerate", "open"} =>
        /\ ar.directory_start - ar.archive_offset \in DeclaredDirectory(ar.file)
        /\ \A name \in DOMAIN ar.entries :
             LET d == ar.entries[name]
             IN  d.header_start - ar.archive_offset
                     \in DeclaredOffsets(HeaderAt(ar.file, d.central_header_start))
        /\ Legacy(ar.file) =>
             ar.directory_start + ar.file.footer.central_directory_size
                 <= ar.file.cde_start_pos

\* an end record whose directory size plus offset exceeds its own position
Oversized(file) ==
    /\ Legacy(file)
    /\ file.footer.central_directory_size + file.footer.central_directory_offset
           > file.cde_start_pos

OversizedFails ==
    Oversized(ar.file) =>
        /\ ar.pc \in {"new", "counts", "failed"}
        /\ ar.pc = "failed" =>
             ar.ret \in {InvalidArchive("Invalid central directory size or offset"),
                         IoErr, UnsupportedArchive, ar.file.find_err}

C9_WitnessOversized ==
    /\ Oversized(ar.file)
    /\ ar.pc = "failed"
    /\ ar.ret = InvalidArchive("Invalid central directory size or offset")

\* the place of the first ZIP64 record of x with at least n payload bytes, as
\* a set: empty when there is none
Zip64First(x, n) ==
    LET ok == { p \in Zip64Places(x) : ReadU16(x, p + 2) >= n }
    IN  { p \in ok : \A q \in ok : p <= q }

\* Of one indexed entry d read from header h: a size whose field holds the
\* sentinel is the 8-byte value of the ZIP64 record, the uncompressed size
\* first, and the entry is marked large; any other size is its field.
Zip64Resolved(h, d) ==
    LET x == h.extra_field
        T == ZIP64_BYTES_THR
        cslot == IF h.uncompressed_size = T THEN 1 ELSE 0
    IN  /\ h.uncompressed_size = T =>
              \A p \in Zip64First(x, 8) :
                  d.uncompressed_size = ReadU64(x, p + 4) /\ d.large_file
        /\ h.compressed_size = T =>
              \A p \in Zip64First(x, 8 * (cslot + 1)) :
                  d.compressed_size = ReadU64(x, p + 4 + 8 * cslot) /\ d.large_file
        /\ h.uncompressed_size # T => d.uncompressed_size = h.uncompressed_size
        /\ h.compressed_size # T => d.compressed_size = h.compressed_size

\* C10: for every indexed entry whose central header holds the sentinel
\* 0xFFFFFFFF as compressed or uncompressed size, the resolved size is the
\* 64-bit value of the ZIP64 (kind 0x0001) extra record, read in the order
\* uncompressed size, compressed size, header offset with 8 bytes for each
\* sentinel-valued field, and large_file is true; a size that is not the
\* sentinel keeps its 32-bit value and takes no bytes of the record.
C10_Zip64Sizes ==
    \A name \in DOMAIN ar.entries :
        Zip64Resolved(HeaderAt(ar.file, ar.entries[name].central_header_start),
                      ar.entries[name])

(***************************************************************************)
(* Claims about PlaintextReader::seek (SpecStored).                        *)
(***************************************************************************)
\* the target of a seek as std::io::Seek defines it over a range of
\* `length` bytes
ClaimedTarget(r, pos) ==
    CASE pos.kind = "Start" -> pos.off
      [] pos.kind = "End" -> (r.end - r.start) + pos.off
      [] pos.kind = "Current" -> r.position + pos.off

\* a seek whose target lies in [0, length] moves there and returns the
\* target; any other seek fails and leaves position alone
StoredSeekStep ==
    pr'.op = "seek" =>
        LET target == ClaimedTarget(pr, pr'.pos)
        IN  IF 0 <= target /\ target <= pr.end - pr.start
            THEN pr'.ret = "Ok" /\ pr'.position = target /\ pr'.n = target
            ELSE pr'.ret = "Invalid seek input" /\ pr'.position = pr.position

PositionInRange == 0 <= pr.position /\ pr.position <= pr.end - pr.start

\* C11: seek on a Stored entry computes the target as pos for Start(pos),
\* length + pos for End(pos) and position + pos for Current(pos), where
\* length = end - start; a target in [0, length] becomes the position and
\* is returned, any other target fails with 'Invalid seek input' and leaves
\* the position unchanged; position stays in [0, length] after any
\* sequence of reads and seeks.
C11_StoredSeek == [][StoredSeekStep]_vars /\ []PositionInRange

(***************************************************************************)
(* Claims about multi-disk archives (SpecOpen).                            *)
(***************************************************************************)
\* the ZIP64 end records that get_directory_counts finds by the locator
FoundZip64(file) ==
    { l.end_of_central_directory_offset : l \in Zip64Locator(file, file.footer) }

UsedZip64(file) ==
    IF file.cde_start_pos < 60 THEN {}
    ELSE { r \in file.zip64_ends :
             \E nominal \in FoundZip64(file) :
                 /\ nominal <= r.at /\ r.at <= file.cde_start_pos - 60
                 /\ \A q \in file.zip64_ends :
                        (nominal <= q.at /\ q.at <= file.cde_start_pos - 60) => r.at <= q.at }

\* the end record that locates the directory names two different disks
MultiDisk(file) ==
    /\ file.find_err.kind = "none"
    /\ IF Legacy(file)
       THEN file.footer.disk_number # file.footer.disk_with_central_directory
       ELSE \E r \in UsedZip64(file) : r.disk_number # r.disk_with_central_directory

\* C12: ZipArchive::new never succeeds on a multi-disk archive: whenever the
\* end record used to locate the directory (the legacy end record, or the
\* ZIP64 end record when a ZIP64 locator is present) has disk_number #
\* disk_with_central_directory, open fails with UnsupportedArchive (a read
\* of the file that fails comes first).
C12_MultiDiskRejected ==
    MultiDisk(ar.file) =>
        /\ ar.pc \in {"new", "counts", "failed"}
        /\ ar.pc = "failed" => ar.ret \in {UnsupportedArchive, IoErr}

(***************************************************************************)
(* zip_file.rs: parse_extra_field on its own                               *)
(***************************************************************************)
\* The extra fields handed to parse_extra_field: up to MaxRecords records,
\* each a ZIP64 record with one value per sentinel-valued field of the
\* entry (in the order uncompressed size, compressed size, header offset),
\* an AES record, a record of another kind or one with an empty payload.
RecordKinds == {"zip64", "aes", "other", "empty"}

Zip64For(u, c, o) ==
    Zip64Extra((IF u THEN <<BigU>> ELSE <<>>) \o (IF c THEN <<BigC>> ELSE <<>>)
               \o (IF o THEN <<LocalGap>> ELSE <<>>))

RecordBytes(kind, u, c, o) ==
    CASE kind = "zip64" -> Zip64For(u, c, o)
      [] kind = "aes" -> AesExtra(2, 17729, 3, 8)
      [] kind = "other" -> OtherExtra
      [] kind = "empty" -> ExtraRecord(30062, <<>>)

RECURSIVE ExtraBytes(_, _, _, _)
ExtraBytes(kinds, u, c, o) ==
    IF kinds = <<>> THEN <<>>
    ELSE RecordBytes(Head(kinds), u, c, o) \o ExtraBytes(Tail(kinds), u, c, o)

\* the entry as central_header_to_zip_file_inner hands it over
ExtraEntry(kinds, u, c, o) ==
    [compression_method |-> FromU16(99),
     compressed_size |-> IF c THEN ZIP64_BYTES_THR ELSE 3,
     uncompressed_size |-> IF u THEN ZIP64_BYTES_THR ELSE 5,
     file_name |-> <<97>>,
     extra_field |-> ExtraBytes(kinds, u, c, o),
     header_start |-> IF o THEN ZIP64_BYTES_THR ELSE 0,
     central_header_start |-> 0,
     large_file |-> FALSE,
     aes_mode |-> <<>>]

ExtraInit ==
    /\ ar \in { [pc |-> "extra", kinds |-> kinds, given |-> ExtraEntry(kinds, u, c, o),
                 file |-> ExtraEntry(kinds, u, c, o), err |-> NoErr, places |-> {}] :
                kinds \in UNION { [1..k -> RecordKinds] : k \in 0..MaxRecords },
                u \in BOOLEAN, c \in BOOLEAN, o \in BOOLEAN }
    /\ dr = Idle /\ pr = Idle /\ sh = Idle /\ fs = Idle

ExtraParse ==
    /\ ar.pc = "extra"
    /\ LET r == ParseExtraField(ar.given)
       IN  ar' = [ar EXCEPT !.pc = "parsed", !.file = r.file, !.err = r.err,
                            !.places = r.places]
    /\ UNCHANGED <<dr, pr, sh, fs>>

ExtraNext == ExtraParse

SpecExtra == ExtraInit /\ [][ExtraNext]_vars

(***************************************************************************)
(* Claims about parse_extra_field (SpecExtra).                             *)
(***************************************************************************)
\* the kinds of the records at the places p, p + 4 + L, ... of x
HoldsKind(x, kind) == \E p \in RecordPlaces(x, 0) : ReadU16(x, p) = kind

\* C13: parse_extra_field walks the extra block as consecutive (kind,
\* length, payload) records: after a record of any kind (ZIP64, AES with
\* its 7-byte payload, or any other) that starts at p with declared length
\* L the next record is read at p + 4 + L, so that a record after an
\* interpreted or skipped record is still interpreted, whatever the order
\* of the records.
C13_RecordWalk ==
    ar.pc = "parsed" =>
        LET x == ar.given.extra_field
        IN  /\ ar.err = NoErr
            /\ ar.places = RecordPlaces(x, 0)
            /\ HoldsKind(x, 39169) => ar.file.aes_mode = <<3, 2>>
            /\ HoldsKind(x, 1) =>
                 /\ ar.given.uncompressed_size = ZIP64_BYTES_THR =>
                        ar.file.uncompressed_size = BigU
                 /\ ar.given.compressed_size = ZIP64_BYTES_THR =>
                        ar.file.compressed_size = BigC
                 /\ ar.given.header_start = ZIP64_BYTES_THR =>
                        ar.file.header_start = LocalGap

(***************************************************************************)
(* Claims about by_name and find_reader (SpecOpen).                        *)
(***************************************************************************)
\* the local header that begins at offset `at`, as a set
LocalAt(file, at) == { l \in file.locals : l.at = at }

\* the last by_name found its name in the index
Looked == ar.pc = "open" /\ ar.name \in DOMAIN ar.entries

\* C14: for every successful by_name the reader is built over start =
\* header_start + 30 + name_length + extra_length and end = start +
\* compressed_size, with the two lengths taken from the local header at
\* header_start; for every resolved header_start and compressed_size, the
\* 64-bit values of a ZIP64 record included, the sums are computed without
\* wrap-around or overflow fault, so that start <= end.
C14_ReaderRange ==
    Looked =>
        LET data == ar.entries[ar.name]
        IN  /\ ar.ret.kind # "panic"
            /\ ar.reader.kind # "none" =>
                 \A l \in LocalAt(ar.file, data.header_start) :
                     LET start == data.header_start + 30 + l.file_name_length
                                                         + l.extra_field_length
                     IN  /\ ar.reader.start = start
                         /\ ar.reader.end = start + data.compressed_size
                         /\ ar.reader.start <= ar.reader.end

(***************************************************************************)
(* Claims about the input buffer of DeflateReader (SpecDeflate).           *)
(***************************************************************************)
\* the buffer holds the file bytes from dr.from on, and the engine has
\* taken every byte of the range before file offset start + position and
\* none from there on
BufferInvariant ==
    /\ 0 <= dr.deflate_position
    /\ dr.deflate_position <= dr.deflate_size
    /\ dr.deflate_size <= DEFLATE_BUF_SIZE
    /\ dr.position <= dr.end - dr.start
    /\ dr.position = dr.decompress.total_in
    /\ dr.start <= dr.from
    /\ dr.from + dr.deflate_size <= dr.end
    /\ dr.from + dr.deflate_position = dr.start + dr.position

\* a buffer is replaced only once all of it was taken, by the bytes that
\* follow in the file
RefillStep ==
    dr'.from # dr.from =>
        /\ dr'.from >= dr.from + dr.deflate_size
        /\ dr'.from + dr'.deflate_position = dr.start + dr'.position
        /\ dr'.deflate_size <= Min(DEFLATE_BUF_SIZE, dr.end - dr'.from)

\* reading a valid stream to its end takes every byte of the range
AllTaken ==
    (ValidStream(dr.s) /\ DeflateReadEnded) => dr.position = dr.end - dr.start

\* C15: in every state of a Deflate reader 0 <= deflate_position <=
\* deflate_size <= 32 and position <= end - start; position grows only by
\* the compressed bytes the engine consumed; the input buffer is refilled
\* only when deflate_position = deflate_size, from file offset start +
\* position and with at most min(32, end - start - position) bytes: every
\* byte of the range [start, end) is handed to the engine once and in file
\* order, and no byte outside the range ever is.
C15_InputBuffer == [](BufferInvariant /\ AllTaken) /\ [][RefillStep]_vars

C15_Witness ==
    /\ dr.from = dr.start + DEFLATE_BUF_SIZE
    /\ dr.start > 0
    /\ dr.deflate_size = 1
    /\ dr.deflate_position = 1
    /\ dr.position = dr.end - dr.start
    /\ dr.delivered > dr.position
    /\ dr.ret = "Ok"

====
